---- MODULE Spec2Model ----
(***************************************************************************)
(* ProtobufStreamClient (src/libs/protobuf_comm/client.cpp) as a state     *)
(* machine: caller threads invoking async_connect / send / disconnect and  *)
(* the destructor, the reactor thread spawned by run_asio that runs        *)
(* io_service_run, and the asynchronous operations (resolve, connect,      *)
(* read, write) outstanding on the io_service.                             *)
(*                                                                         *)
(* Library behaviour relied on (boost::asio / std::thread):                *)
(*  - io_service::run() returns once no work is outstanding; work posted   *)
(*    after it returned stays queued until a later run();                  *)
(*  - closing a socket completes its outstanding operations with an error; *)
(*  - the range form of boost::asio::async_connect closes the socket if it *)
(*    is open before it starts connecting;                                 *)
(*  - an operation started on a socket that is not connected fails;        *)
(*  - assigning to a joinable std::thread calls std::terminate;            *)
(*  - io_service::stop() makes run() return without dispatching further    *)
(*    handlers, until reset() is called;                                   *)
(*  - an exception thrown by a handler propagates out of run(); one that   *)
(*    leaves the function of a std::thread calls std::terminate.           *)
(***************************************************************************)
EXTENDS Naturals, Sequences, FiniteSets

\* ------------------------------------------------------------------ bounds
MaxSends == 2
MaxConnects == 2

\* caller threads of the application
Callers == {"c1", "c2"}

\* payload_size values a peer's frame header may declare
PayloadSizes == {512, 2048}

\* in_data_size_ set by the constructor
InitialCapacity == 1024

VARIABLES
    connected_,        \* bool connected_
    outbound_active_,  \* bool outbound_active_
    in_data_size_,     \* size_t in_data_size_ (capacity of in_data_)
    in_frame_header_,  \* payload_size of the header last read into
                       \* in_frame_header_; 0 stands for content that is
                       \* not read again (no payload read is outstanding)
    outbound_queue_,   \* std::queue<QueueEntry*>: sequence of entry ids
    outbound_mutex_,   \* owner of outbound_mutex_: "free" or a caller
    asio_mutex_,       \* owner of asio_mutex_: "free", a caller or "reactor"
    asio_thread_,      \* "none" (not joinable), "spawned", "running",
                       \* "returned" (run() returned), "finished" (joinable)
    rpc,               \* reactor position: "loop" or "hw_lock" (in handle_write)
    sock,              \* socket_: "closed", "open" (connecting), "connected"
    resolves,          \* outstanding async_resolve operations
    connects,          \* outstanding async_connect operations
    reads,             \* outstanding async_read operations
    writes,            \* outstanding async_write operations
    pc,                \* position of each caller thread
    ent,               \* QueueEntry a caller holds inside send (0: none)
    nextId,            \* number of entries send has serialized
    connectCalls,      \* number of async_connect calls made
    crashed,           \* the process was terminated
    acq,               \* entry ids in the order send acquired outbound_mutex_
    wire,              \* entry ids in the order async_write was issued
    fired,             \* the notifications the last operation emitted
    awaiting,          \* a connect call has had no notification after it yet
    ioErr,             \* an operation has failed or was cancelled, or
                       \* disconnect was called
    sinceDisconnect,   \* a caller's disconnect() returned and connect has
                       \* not been called since
    stopped_           \* io_service_.stop() was called and reset() not yet

vars == <<connected_, outbound_active_, in_data_size_, in_frame_header_,
          outbound_queue_,
          outbound_mutex_, asio_mutex_, asio_thread_, rpc, sock, resolves,
          connects, reads, writes, pc, ent, nextId, connectCalls, crashed,
          acq, wire, fired, awaiting, ioErr, sinceDisconnect, stopped_>>

clientVars == <<connected_, in_data_size_, in_frame_header_>>
queueVars == <<outbound_active_, outbound_queue_, outbound_mutex_>>
threadVars == <<asio_mutex_, asio_thread_, rpc>>
opVars == <<sock, resolves, connects, reads, writes>>
callVars == <<pc, ent, nextId, connectCalls>>
histVars == <<acq, wire, awaiting, ioErr, sinceDisconnect>>

\* ------------------------------------------------------------- helpers
Remove(s, i) == [j \in 1..(Len(s) - 1) |-> IF j < i THEN s[j] ELSE s[j + 1]]

Range(s) == {s[i] : i \in DOMAIN s}

\* operations outstanding on a socket that is closed complete with an error
Abort(s) == [i \in DOMAIN s |-> [s[i] EXCEPT !.ok = FALSE]]

\* notifications
SigConnected == <<"connected">>
SigDisconnected(reason) == <<"disconnected", reason>>
SigRcvd(len) == <<"rcvd", len>>

IsDisc(n) == n[1] = "disconnected"

\* a notification of either kind ends the wait of the connect calls before it
Reported(events) == \E i \in DOMAIN events : events[i][1] \in {"connected", "disconnected"}

\* ---------------------------------------------------------------- Init
Init ==
    /\ connected_ = FALSE
    /\ outbound_active_ = FALSE
    /\ in_data_size_ = InitialCapacity
    /\ in_frame_header_ = 0
    /\ outbound_queue_ = <<>>
    /\ outbound_mutex_ = "free"
    /\ asio_mutex_ = "free"
    /\ asio_thread_ = "none"
    /\ rpc = "loop"
    /\ sock = "closed"
    /\ resolves = 0
    /\ connects = <<>>
    /\ reads = <<>>
    /\ writes = <<>>
    /\ pc = [t \in Callers |-> "idle"]
    /\ ent = [t \in Callers |-> 0]
    /\ nextId = 0
    /\ connectCalls = 0
    /\ crashed = FALSE
    /\ acq = <<>>
    /\ wire = <<>>
    /\ fired = <<>>
    /\ awaiting = FALSE
    /\ ioErr = FALSE
    /\ sinceDisconnect = FALSE
    /\ stopped_ = FALSE

\* what an operation leaves behind for an observer: the notifications it
\* emitted, and whether a connect call still waits for one
Observe(events) ==
    /\ fired' = events
    /\ awaiting' = (awaiting /\ ~Reported(events))

\* ------------------------------------------------------------ teardown
\* the thread that owns the client and destroys it
Owner == CHOOSE t \in Callers : TRUE

\* the destructor has been entered
TearingDown == pc[Owner] \in {"dtor_stop", "dtor_join", "destroyed"}

\* ------------------------------------------------ caller threads: run_asio
\* leaving send releases the lock_guard on outbound_mutex_
Return(t) ==
    /\ pc' = [pc EXCEPT ![t] = "idle"]
    /\ outbound_mutex_' = IF outbound_mutex_ = t THEN "free" ELSE outbound_mutex_

\* if (asio_mutex_.try_lock()) { ... } : a failed try_lock makes run_asio a no-op
RunAsioTryLock(t) ==
    /\ ~crashed
    /\ pc[t] = "ra_try"
    /\ IF asio_mutex_ = "free"
       THEN /\ asio_mutex_' = t
            /\ pc' = [pc EXCEPT ![t] = "ra_join"]
            /\ UNCHANGED outbound_mutex_
       ELSE /\ Return(t)
            /\ UNCHANGED asio_mutex_
    /\ UNCHANGED <<clientVars, outbound_active_, outbound_queue_, asio_thread_,
                   rpc, opVars, ent, nextId, connectCalls, crashed, histVars, fired>>
    /\ UNCHANGED stopped_

\* if (asio_thread_.joinable()) asio_thread_.join();  asio_mutex_.unlock();
\* join() returns only once the thread function has returned
RunAsioJoin(t) ==
    /\ ~crashed
    /\ pc[t] = "ra_join"
    /\ asio_thread_ \in {"none", "finished"}
    /\ asio_thread_' = "none"
    /\ asio_mutex_' = "free"
    /\ pc' = [pc EXCEPT ![t] = "ra_spawn"]
    /\ UNCHANGED <<clientVars, queueVars, rpc, opVars, ent, nextId,
                   connectCalls, crashed, histVars, fired>>
    /\ UNCHANGED stopped_

\* asio_thread_ = std::thread(&ProtobufStreamClient::io_service_run, this);
\* move-assigning to a joinable std::thread terminates the process
RunAsioSpawn(t) ==
    /\ ~crashed
    /\ pc[t] = "ra_spawn"
    /\ IF asio_thread_ # "none"
       THEN /\ crashed' = TRUE
            /\ UNCHANGED <<asio_thread_, pc, outbound_mutex_>>
       ELSE /\ asio_thread_' = "spawned"
            /\ Return(t)
            /\ UNCHANGED crashed
    /\ UNCHANGED <<clientVars, outbound_active_, outbound_queue_, asio_mutex_,
                   rpc, opVars, ent, nextId, connectCalls, histVars, fired>>
    /\ UNCHANGED stopped_

\* --------------------------------------------- caller threads: operations
\* async_connect: resolver_.async_resolve(...); run_asio();
AsyncConnect(t) ==
    /\ ~crashed
    /\ pc[t] = "idle"
    /\ ~TearingDown
    /\ connectCalls < MaxConnects
    /\ connectCalls' = connectCalls + 1
    /\ resolves' = resolves + 1
    /\ pc' = [pc EXCEPT ![t] = "ra_try"]
    /\ fired' = <<>>
    /\ awaiting' = TRUE
    /\ sinceDisconnect' = FALSE
    /\ UNCHANGED <<clientVars, queueVars, threadVars, sock, connects, reads,
                   writes, ent, nextId, crashed, acq, wire, ioErr>>
    /\ UNCHANGED stopped_

\* disconnect_nosig: socket_.shutdown; socket_.close(); connected_ = false;
DisconnectNosigSock == "closed"

\* disconnect that stays silent when the socket is already closed
DisconnectSignalsIfOpen ==
    IF sock # "closed" THEN <<SigDisconnected("none")>> ELSE <<>>

\* disconnect: disconnect_nosig(); sig_disconnected_(error_code());
DisconnectSignals == <<SigDisconnected("none")>>

Disconnect(t) ==
    /\ ~crashed
    /\ pc[t] = "idle"
    /\ ~TearingDown
    /\ sock' = DisconnectNosigSock
    /\ connects' = Abort(connects)
    /\ reads' = Abort(reads)
    /\ writes' = Abort(writes)
    /\ connected_' = FALSE
    /\ ioErr' = TRUE
    /\ sinceDisconnect' = TRUE
    /\ Observe(DisconnectSignals)
    /\ UNCHANGED <<in_data_size_, in_frame_header_, queueVars, threadVars,
                   resolves, callVars,
                   crashed, acq, wire>>
    /\ UNCHANGED stopped_

\* ~ProtobufStreamClient, entered while no other call is in progress:
\* if (asio_thread_.joinable()) { disconnect(); ... } ... free(in_data_);
Destructor ==
    /\ ~crashed
    /\ \A t \in Callers : pc[t] = "idle"
    /\ IF asio_thread_ # "none"
       THEN /\ pc' = [pc EXCEPT ![Owner] = "dtor_stop"]
            /\ sock' = DisconnectNosigSock
            /\ connects' = Abort(connects)
            /\ reads' = Abort(reads)
            /\ writes' = Abort(writes)
            /\ connected_' = FALSE
            /\ ioErr' = TRUE
            /\ sinceDisconnect' = TRUE
            /\ Observe(DisconnectSignals)
       ELSE /\ pc' = [pc EXCEPT ![Owner] = "destroyed"]
            /\ Observe(<<>>)
            /\ UNCHANGED <<sock, connects, reads, writes, connected_, ioErr,
                           sinceDisconnect>>
    /\ UNCHANGED <<in_data_size_, in_frame_header_, queueVars, threadVars,
                   resolves, ent, nextId, connectCalls, crashed, acq, wire,
                   stopped_>>

\* the destructor without the stop request
DtorNoStop ==
    /\ ~crashed
    /\ pc[Owner] = "dtor_stop"
    /\ pc' = [pc EXCEPT ![Owner] = "dtor_join"]
    /\ UNCHANGED <<clientVars, queueVars, threadVars, opVars, ent, nextId,
                   connectCalls, crashed, histVars, fired, stopped_>>

\* the destructor: io_service_.stop();
DtorStop ==
    /\ ~crashed
    /\ pc[Owner] = "dtor_stop"
    /\ stopped_' = TRUE
    /\ pc' = [pc EXCEPT ![Owner] = "dtor_join"]
    /\ UNCHANGED <<clientVars, queueVars, threadVars, opVars, ent, nextId,
                   connectCalls, crashed, histVars, fired>>

\* the destructor: asio_thread_.join(); returns when the thread has ended
DtorJoin ==
    /\ ~crashed
    /\ pc[Owner] = "dtor_join"
    /\ asio_thread_ = "finished"
    /\ asio_thread_' = "none"
    /\ pc' = [pc EXCEPT ![Owner] = "destroyed"]
    /\ UNCHANGED <<clientVars, queueVars, asio_mutex_, rpc, opVars, ent,
                   nextId, connectCalls, crashed, histVars, fired, stopped_>>

\* send, up to the lock_guard: the entry is created and serialized
Send(t) ==
    /\ ~crashed
    /\ pc[t] = "idle"
    /\ ~TearingDown
    /\ nextId < MaxSends
    /\ nextId' = nextId + 1
    /\ ent' = [ent EXCEPT ![t] = nextId + 1]
    /\ pc' = [pc EXCEPT ![t] = "send_lock"]
    /\ Observe(<<>>)
    /\ UNCHANGED <<clientVars, queueVars, threadVars, opVars, connectCalls,
                   crashed, acq, wire, ioErr>>
    /\ UNCHANGED sinceDisconnect
    /\ UNCHANGED stopped_

\* the codec: serialize yields the header and the bytes of the message, or
\* fails (the message cannot be encoded)
SerializeResults == {"encoded", "failed"}

\* send when message_register_.serialize fails: the exception leaves send
\* before outbound_mutex_ is taken; the entry is neither written nor queued
SendEncodeFails(t) ==
    /\ ~crashed
    /\ pc[t] = "idle"
    /\ ~TearingDown
    /\ "failed" \in SerializeResults
    /\ Observe(<<>>)
    /\ UNCHANGED <<clientVars, queueVars, threadVars, opVars, callVars,
                   crashed, acq, wire, ioErr, sinceDisconnect>>
    /\ UNCHANGED stopped_

\* an async_write started on a socket that is not connected fails
NewWrite(id) == [id |-> id, ok |-> (sock = "connected")]

\* send that never looks at outbound_active_
SendNeverQueues == FALSE

\* if (outbound_active_) in send
SendMustQueue == outbound_active_

\* send, under outbound_mutex_: push the entry, or mark a write in flight,
\* issue the write and go on to run_asio() still holding the mutex
SendLocked(t) ==
    /\ ~crashed
    /\ pc[t] = "send_lock"
    /\ outbound_mutex_ = "free"
    /\ acq' = Append(acq, ent[t])
    /\ ent' = [ent EXCEPT ![t] = 0]
    /\ IF SendMustQueue
       THEN /\ outbound_queue_' = Append(outbound_queue_, ent[t])
            /\ pc' = [pc EXCEPT ![t] = "idle"]
            /\ UNCHANGED <<outbound_active_, outbound_mutex_, writes, wire>>
       ELSE /\ outbound_active_' = TRUE
            /\ writes' = Append(writes, NewWrite(ent[t]))
            /\ wire' = Append(wire, ent[t])
            /\ outbound_mutex_' = t
            /\ pc' = [pc EXCEPT ![t] = "ra_try"]
            /\ UNCHANGED outbound_queue_
    /\ ioErr' = (ioErr \/ (~SendMustQueue /\ ~NewWrite(ent[t]).ok))
    /\ Observe(<<>>)
    /\ UNCHANGED <<clientVars, threadVars, sock, resolves, connects, reads,
                   nextId, connectCalls, crashed>>
    /\ UNCHANGED sinceDisconnect
    /\ UNCHANGED stopped_

\* ------------------------------------------------------- reactor thread
\* io_service_run without the lock_guard on asio_mutex_
IoServiceRunNoLock ==
    /\ ~crashed
    /\ asio_thread_ = "spawned"
    /\ asio_thread_' = "running"
    /\ UNCHANGED <<clientVars, queueVars, asio_mutex_, rpc, opVars, callVars,
                   crashed, histVars, fired>>
    /\ UNCHANGED stopped_

\* io_service_run: std::lock_guard<std::mutex> lock(asio_mutex_);
IoServiceRunLock ==
    /\ ~crashed
    /\ asio_thread_ = "spawned"
    /\ asio_mutex_ = "free"
    /\ asio_mutex_' = "reactor"
    /\ asio_thread_' = "running"
    /\ UNCHANGED <<clientVars, queueVars, rpc, opVars, callVars, crashed,
                   histVars, fired>>
    /\ UNCHANGED stopped_

\* no asynchronous operation is outstanding on io_service_
NoWork == resolves = 0 /\ connects = <<>> /\ reads = <<>> /\ writes = <<>>

\* the reactor thread is inside io_service_.run(), between two handlers
InRun == ~crashed /\ asio_thread_ = "running" /\ rpc = "loop" /\ ~stopped_

\* io_service_.run() returns when it runs out of work, or when it was stopped
IoServiceRunReturn ==
    /\ ~crashed
    /\ asio_thread_ = "running"
    /\ rpc = "loop"
    /\ NoWork \/ stopped_
    /\ asio_thread_' = "returned"
    /\ UNCHANGED <<clientVars, queueVars, asio_mutex_, rpc, opVars, callVars,
                   crashed, histVars, fired>>
    /\ UNCHANGED stopped_

\* io_service_.reset(); the lock_guard releases asio_mutex_; the thread ends
IoServiceReset ==
    /\ ~crashed
    /\ asio_thread_ = "returned"
    /\ asio_thread_' = "finished"
    /\ asio_mutex_' = "free"
    /\ UNCHANGED <<clientVars, queueVars, rpc, opVars, callVars, crashed,
                   histVars, fired>>
    /\ stopped_' = FALSE

\* the error branches of handle_resolve and handle_connect:
\* disconnect(); sig_disconnected_(err);
ErrorPathSignals(reason) == DisconnectSignals \o <<SigDisconnected(reason)>>

\* start_recv: async_read of sizeof(frame_header_t) bytes
StartRecv == [kind |-> "header", len |-> 0, ok |-> TRUE]

\* handle_resolve
HandleResolve(err) ==
    /\ InRun
    /\ resolves > 0
    /\ resolves' = resolves - 1
    /\ IF ~err
       THEN \* boost::asio::async_connect(socket_, endpoint_iterator, ...)
            /\ connects' = Append(Abort(connects), [ok |-> TRUE])
            /\ reads' = Abort(reads)
            /\ writes' = Abort(writes)
            /\ sock' = "open"
            /\ Observe(<<>>)
            /\ ioErr' = (ioErr \/ connects # <<>> \/ reads # <<>> \/ writes # <<>>)
            /\ UNCHANGED connected_
       ELSE /\ sock' = DisconnectNosigSock
            /\ connects' = Abort(connects)
            /\ reads' = Abort(reads)
            /\ writes' = Abort(writes)
            /\ connected_' = FALSE
            /\ ioErr' = TRUE
            /\ Observe(ErrorPathSignals("resolve"))
    /\ UNCHANGED <<in_data_size_, in_frame_header_, queueVars, threadVars,
                   callVars, crashed,
                   acq, wire>>
    /\ UNCHANGED sinceDisconnect
    /\ UNCHANGED stopped_

\* handle_connect for the i-th outstanding connect
HandleConnect(i, err) ==
    /\ InRun
    /\ i \in DOMAIN connects
    /\ err \/ connects[i].ok
    /\ IF ~err
       THEN /\ connected_' = TRUE
            /\ sock' = "connected"
            /\ connects' = Remove(connects, i)
            /\ reads' = Append(reads, StartRecv)
            /\ Observe(<<SigConnected>>)
            /\ UNCHANGED <<writes, ioErr>>
       ELSE /\ sock' = DisconnectNosigSock
            /\ connects' = Abort(Remove(connects, i))
            /\ reads' = Abort(reads)
            /\ writes' = Abort(writes)
            /\ connected_' = FALSE
            /\ ioErr' = TRUE
            /\ Observe(ErrorPathSignals("connect"))
    /\ UNCHANGED <<in_data_size_, queueVars, threadVars, resolves, callVars,
                   crashed, acq, wire>>
    /\ UNCHANGED sinceDisconnect
    /\ IF ~err THEN in_frame_header_' = 0 ELSE UNCHANGED in_frame_header_
    /\ UNCHANGED stopped_

\* the capacity after handle_read_header saw payload_size n; grown: realloc
\* returned a block
Realloc(n, grown) == IF n > in_data_size_ /\ grown THEN n ELSE in_data_size_

\* what handle_read_header emits when realloc fails
ReallocSignals(n, grown) ==
    IF n > in_data_size_ /\ ~grown
    THEN <<SigDisconnected("not_enough_memory")>>
    ELSE <<>>

\* handle_read_header for the i-th outstanding read: the header declares
\* payload_size n
HandleReadHeader(i, err, n, grown) ==
    /\ InRun
    /\ i \in DOMAIN reads
    /\ reads[i].kind = "header"
    /\ err \/ reads[i].ok
    /\ IF ~err
       THEN /\ in_frame_header_' = n
            /\ in_data_size_' = Realloc(n, grown)
            /\ reads' = Append(Remove(reads, i),
                               [kind |-> "message", len |-> n, ok |-> TRUE])
            /\ Observe(ReallocSignals(n, grown))
            /\ ioErr' = (ioErr \/ ReallocSignals(n, grown) # <<>>)
       ELSE /\ reads' = Remove(reads, i)
            /\ Observe(<<>>)
            /\ ioErr' = TRUE
            /\ UNCHANGED <<in_data_size_, in_frame_header_>>
    /\ UNCHANGED <<connected_, queueVars, threadVars, sock, resolves, connects,
                   writes, callVars, crashed, acq, wire>>
    /\ UNCHANGED sinceDisconnect
    /\ UNCHANGED stopped_

\* in_frame_header_ is read by handle_read_message only; with the reads rs
\* outstanding its content matters only if a payload read is among them
HeaderKept(rs) ==
    IF \E j \in DOMAIN rs : rs[j].kind = "message" THEN in_frame_header_ ELSE 0

\* handle_read_message without sig_rcvd_: the message is dropped
DispatchNothing(h) == <<>>

\* handle_read_message: the message decoded under the header in
\* in_frame_header_ is handed to sig_rcvd_ with that header's tags
DispatchSignals(h) == <<SigRcvd(h)>>

\* handle_read_message for the i-th outstanding read
HandleReadMessage(i, err) ==
    /\ InRun
    /\ i \in DOMAIN reads
    /\ reads[i].kind = "message"
    /\ err \/ reads[i].ok
    /\ IF ~err
       THEN /\ reads' = Append(Remove(reads, i), StartRecv)
            /\ Observe(DispatchSignals(in_frame_header_))
            /\ in_frame_header_' = 0
            /\ UNCHANGED ioErr
       ELSE /\ reads' = Remove(reads, i)
            /\ Observe(<<>>)
            /\ ioErr' = TRUE
            /\ in_frame_header_' = HeaderKept(Remove(reads, i))
    /\ UNCHANGED <<connected_, in_data_size_, queueVars, threadVars, sock,
                   resolves, connects, writes, callVars, crashed, acq, wire>>
    /\ UNCHANGED sinceDisconnect
    /\ UNCHANGED stopped_

\* the codec: deserialize yields a message object, or fails with an "unknown
\* type" condition when the header's tags are not registered
DeserializeResults == {"message", "unknown_type"}

\* handle_read_message when message_register_.deserialize fails: the
\* exception leaves the handler before sig_rcvd_ and start_recv, then
\* io_service_.run() and io_service_run, the function of the thread; nothing
\* catches it and std::terminate ends the process
DecodeFails(i) ==
    /\ InRun
    /\ i \in DOMAIN reads
    /\ reads[i].kind = "message"
    /\ reads[i].ok
    /\ "unknown_type" \in DeserializeResults
    /\ crashed' = TRUE
    /\ ioErr' = TRUE
    /\ UNCHANGED <<clientVars, queueVars, threadVars, opVars, callVars, acq,
                   wire, awaiting, sinceDisconnect, fired>>
    /\ UNCHANGED stopped_

\* a payload read longer than the buffer writes past the end of in_data_:
\* besides completing as above, it may bring the process down
ReadOverflowCrash(i) ==
    /\ InRun
    /\ i \in DOMAIN reads
    /\ reads[i].kind = "message"
    /\ reads[i].len > in_data_size_
    /\ crashed' = TRUE
    /\ UNCHANGED <<clientVars, queueVars, threadVars, opVars, callVars,
                   histVars, fired>>
    /\ UNCHANGED stopped_

\* handle_write for the i-th outstanding write, up to the lock_guard:
\* delete entry; on an error sig_disconnected_(error)
HandleWrite(i, err) ==
    /\ InRun
    /\ i \in DOMAIN writes
    /\ err \/ writes[i].ok
    /\ writes' = Remove(writes, i)
    /\ IF ~err
       THEN /\ rpc' = "hw_lock"
            /\ Observe(<<>>)
            /\ UNCHANGED ioErr
       ELSE /\ Observe(<<SigDisconnected("write")>>)
            /\ ioErr' = TRUE
            /\ UNCHANGED rpc
    /\ UNCHANGED <<clientVars, queueVars, asio_mutex_, asio_thread_, sock,
                   resolves, connects, reads, callVars, crashed, acq, wire>>
    /\ UNCHANGED sinceDisconnect
    /\ UNCHANGED stopped_

\* handle_write that leaves the entry it writes in the queue
QueueNoPop(q) == q

\* outbound_queue_.front() and outbound_queue_.pop()
QueueFront(q) == Head(q)
QueuePop(q) == Tail(q)

\* handle_write under outbound_mutex_: issue the next write or clear the flag
HandleWriteLocked ==
    /\ ~crashed
    /\ asio_thread_ = "running"
    /\ rpc = "hw_lock"
    /\ outbound_mutex_ = "free"
    /\ rpc' = "loop"
    /\ IF outbound_queue_ # <<>>
       THEN /\ writes' = Append(writes, NewWrite(QueueFront(outbound_queue_)))
            /\ wire' = Append(wire, QueueFront(outbound_queue_))
            /\ outbound_queue_' = QueuePop(outbound_queue_)
            /\ UNCHANGED outbound_active_
       ELSE /\ outbound_active_' = FALSE
            /\ UNCHANGED <<outbound_queue_, writes, wire>>
    /\ ioErr' = (ioErr \/ (outbound_queue_ # <<>> /\ sock # "connected"))
    /\ Observe(<<>>)
    /\ UNCHANGED <<clientVars, outbound_mutex_, asio_mutex_, asio_thread_,
                   sock, resolves, connects, reads, callVars, crashed, acq>>
    /\ UNCHANGED sinceDisconnect
    /\ UNCHANGED stopped_

\* ------------------------------------------------------- specification
\* the completions io_service_.run() dispatches, with either outcome
ResolveCompletes == \E err \in BOOLEAN : HandleResolve(err)

ConnectCompletes == \E i \in DOMAIN connects, err \in BOOLEAN : HandleConnect(i, err)

ReadHeaderCompletes ==
    \E i \in DOMAIN reads, err \in BOOLEAN, n \in PayloadSizes, grown \in BOOLEAN :
        HandleReadHeader(i, err, n, grown)

ReadMessageCompletes == \E i \in DOMAIN reads, err \in BOOLEAN : HandleReadMessage(i, err)

DecodeFailure == \E i \in DOMAIN reads : DecodeFails(i)

EncodeFailure == \E t \in Callers : SendEncodeFails(t)

ReadOverflows == \E i \in DOMAIN reads : ReadOverflowCrash(i)

WriteCompletes == \E i \in DOMAIN writes, err \in BOOLEAN : HandleWrite(i, err)

CallerStep(t) ==
    \/ RunAsioTryLock(t)
    \/ RunAsioJoin(t)
    \/ RunAsioSpawn(t)
    \/ SendLocked(t)

ReactorStep ==
    \/ IoServiceRunLock
    \/ IoServiceRunReturn
    \/ IoServiceReset
    \/ HandleWriteLocked

Next ==
    \/ \E t \in Callers : AsyncConnect(t)
    \/ \E t \in Callers : Disconnect(t)
    \/ \E t \in Callers : Send(t)
    \/ \E t \in Callers : SendLocked(t)
    \/ \E t \in Callers : RunAsioTryLock(t)
    \/ \E t \in Callers : RunAsioJoin(t)
    \/ \E t \in Callers : RunAsioSpawn(t)
    \/ IoServiceRunLock
    \/ IoServiceRunReturn
    \/ IoServiceReset
    \/ ResolveCompletes
    \/ ConnectCompletes
    \/ ReadHeaderCompletes
    \/ ReadMessageCompletes
    \/ ReadOverflows
    \/ WriteCompletes
    \/ HandleWriteLocked
    \/ EncodeFailure
    \/ DecodeFailure
    \/ Destructor
    \/ DtorStop
    \/ DtorJoin

Spec == Init /\ [][Next]_vars

\* the reactor thread is scheduled, resolve and connect attempts complete, a
\* write completes, a cancelled read completes, and a caller inside an
\* operation goes on when it can
AbortedReadCompletes ==
    \E i \in DOMAIN reads, n \in PayloadSizes, grown \in BOOLEAN :
        /\ ~reads[i].ok
        /\ (HandleReadHeader(i, TRUE, n, grown) \/ HandleReadMessage(i, TRUE))

Fairness ==
    /\ \A t \in Callers : WF_vars(CallerStep(t))
    /\ WF_vars(DtorStop \/ DtorJoin)
    /\ WF_vars(ReactorStep)
    /\ WF_vars(ResolveCompletes)
    /\ WF_vars(ConnectCompletes)
    /\ WF_vars(WriteCompletes)
    /\ WF_vars(AbortedReadCompletes)

FairSpec == Spec /\ Fairness

\* ---------------------------------------------------------------- claims
IsPrefix(s, t) == Len(s) <= Len(t) /\ \A i \in DOMAIN s : s[i] = t[i]

NoDuplicates(s) == \A i, j \in DOMAIN s : i # j => s[i] # s[j]

\* a read handler runs with an error, at either stage
ReadError ==
    \E i \in DOMAIN reads :
        \/ \E n \in PayloadSizes, grown \in BOOLEAN : HandleReadHeader(i, TRUE, n, grown)
        \/ HandleReadMessage(i, TRUE)

\* handle_resolve or handle_connect runs with an error
ConnectError ==
    \/ HandleResolve(TRUE)
    \/ \E i \in DOMAIN connects : HandleConnect(i, TRUE)

\* exactly one disconnected notification, and it carries an error
OneErrorNotification(events) ==
    /\ Len(events) = 1
    /\ IsDisc(events[1])
    /\ events[1][2] # "none"

\* a caller inside run_asio holds asio_mutex_ and joins a reactor thread that
\* waits for asio_mutex_
JoinBlocked ==
    \E t \in Callers :
        /\ pc[t] = "ra_join"
        /\ asio_mutex_ = t
        /\ asio_thread_ = "spawned"

C2_OneWriteOutstanding == Len(writes) <= 1

\* on the connected socket a write is outstanding and an entry is queued
\* behind it
C2_Witness ==
    /\ Len(writes) = 1
    /\ outbound_queue_ # <<>>
    /\ connected_

\* C3: when a read handler runs with an error, at either stage, no read is
\* issued, connected_ becomes false and exactly one disconnected notification
\* with an error reason is emitted.
C3_ReadErrorDisconnects ==
    [][ReadError =>
          /\ Len(reads') < Len(reads)
          /\ ~connected_'
          /\ OneErrorNotification(fired')]_vars

\* C4: an outstanding payload read never asks for more bytes than the
\* capacity of the input buffer.
C4_PayloadReadFits ==
    \A i \in DOMAIN reads :
        reads[i].kind = "message" => reads[i].len <= in_data_size_

\* C5: the capacity is at least 1024, never decreases, and when a frame of
\* payload size N has been received it is at least N.
C5_CapacityCoversReceived ==
    [][/\ in_data_size_ >= InitialCapacity
       /\ in_data_size_' >= in_data_size_
       /\ (\E i \in DOMAIN reads : HandleReadMessage(i, FALSE))
             => in_data_size_' >= fired'[1][2]]_vars

\* C6: a disconnect() call, in any state, emits exactly one disconnected
\* notification, with no error, and leaves connected_ false.
C6_DisconnectNotifiesOnce ==
    [][(\E t \in Callers : Disconnect(t)) =>
          /\ fired' = <<SigDisconnected("none")>>
          /\ ~connected_']_vars

\* disconnect() was called on a client that never called connect, so that the
\* socket was already closed
C6_Witness ==
    /\ fired = <<SigDisconnected("none")>>
    /\ connectCalls = 0
    /\ sock = "closed"
    /\ ~connected_

\* C7: a failed resolve or connect emits exactly one disconnected
\* notification, and it carries the failure reason; connected_ is false
\* afterwards.
C7_FailureSurfacedOnce ==
    [][ConnectError => (~connected_' /\ OneErrorNotification(fired'))]_vars

\* C8: no caller inside run_asio holds asio_mutex_ and joins a reactor thread
\* that has not yet acquired asio_mutex_.
C8_NoJoinDeadlock == ~JoinBlocked

\* C9: every connect call is eventually followed by a connected or a
\* disconnected notification (stated for the runs in which the process is not
\* terminated and no caller blocks in run_asio, so that a violation shows the
\* loss of the scheduled resolve itself).
C9_ConnectOutcomeReported == awaiting ~> (~awaiting \/ crashed \/ JoinBlocked)

\* C10: while connected and with no I/O error, every entry for which send
\* acquired outbound_mutex_ is eventually handed to async_write, and the
\* queue drains with outbound_active_ cleared.
C10_SendsEventuallyWritten ==
    /\ \A id \in 1..MaxSends :
          (id \in Range(acq) /\ connected_ /\ ~ioErr) ~> (id \in Range(wire) \/ ioErr)
    /\ (outbound_active_ /\ connected_ /\ ~ioErr)
          ~> (ioErr \/ (outbound_queue_ = <<>> /\ ~outbound_active_))


\* C11: after an explicit disconnect() has returned, and until connect is
\* called again, the client stays Disconnected: is_connected() is false and no
\* Connected notification fires, even when the disconnect was issued while a
\* resolve or connect of an earlier connect call was still pending.
C11_DisconnectSticks ==
    sinceDisconnect => /\ ~connected_
                       /\ SigConnected \notin Range(fired)


\* handle_write runs with an error
WriteError == \E i \in DOMAIN writes : HandleWrite(i, TRUE)

\* C12: when a write completes with an error, exactly one disconnected
\* notification carrying the error fires, the client is Disconnected
\* (is_connected() is false), no further write is issued, and the entries
\* still queued are discarded: the outbound queue is empty afterwards.
C12_WriteErrorDisconnects ==
    [][WriteError => /\ OneErrorNotification(fired')
                     /\ ~connected_'
                     /\ Len(writes') < Len(writes)
                     /\ outbound_queue_' = <<>>]_vars


\* run_asio assigns a new std::thread to asio_thread_
ThreadAssigned == \E t \in Callers : RunAsioSpawn(t)

\* C13: at most one reactor thread is live per client: run_asio never assigns
\* a new thread to asio_thread_ while the handle still holds a thread that was
\* not joined, so no second thread is spawned while the previous one has not
\* finished.
C13_OneReactorThread ==
    [][ThreadAssigned => (asio_thread_ = "none" /\ ~crashed')]_vars


\* the reactor thread is inside io_service_run, between lock and unlock
InsideRun == asio_thread_ \in {"running", "returned"}

\* C14: completion callbacks never run concurrently: a thread is inside the
\* event loop only while it holds asio_mutex_, which io_service_run keeps for
\* the whole loop; a callback in progress belongs to that thread, and no
\* caller is between try_lock and unlock of run_asio (where a thread is
\* joined and a new one prepared) while a thread is inside the loop.
C14_CallbacksSerialized ==
    /\ InsideRun => asio_mutex_ = "reactor"
    /\ rpc = "hw_lock" => asio_thread_ = "running"
    /\ \A t \in Callers : pc[t] = "ra_join" => ~InsideRun

\* handle_write is in progress on the reactor thread, which holds asio_mutex_,
\* while a caller is about to try the lock in run_asio
C14_Witness ==
    /\ rpc = "hw_lock"
    /\ asio_mutex_ = "reactor"
    /\ \E t \in Callers : pc[t] = "ra_try"


\* a step of disconnect() executed on the thread of its caller
CallerDisconnects == \E t \in Callers : Disconnect(t)

\* C15: connected_ is written only on the reactor thread: no operation that
\* runs on a caller thread (connect, send, disconnect, teardown) changes the
\* flag.
C15_FlagWrittenByReactorOnly ==
    [][(\/ CallerDisconnects
        \/ Destructor \/ DtorStop \/ DtorJoin
        \/ \E t \in Callers : AsyncConnect(t) \/ Send(t) \/ SendLocked(t)
        \/ \E t \in Callers : RunAsioTryLock(t) \/ RunAsioJoin(t) \/ RunAsioSpawn(t))
       => connected_' = connected_]_vars


\* outbound_mutex_ is free and handle_write is not executing
WriterQuiescent == outbound_mutex_ = "free" /\ rpc = "loop"

\* C17: whenever outbound_mutex_ is free and no handle_write is executing,
\* outbound_active_ is set exactly when one write is outstanding, and the
\* queue is non-empty only if outbound_active_ is set; also after a write
\* completed with an error.
C17_FlagMatchesOutstandingWrite ==
    WriterQuiescent =>
        /\ outbound_active_ <=> (Len(writes) = 1)
        /\ outbound_queue_ # <<>> => outbound_active_



\* send would only append to the queue although no write is outstanding whose
\* completion would drain it, and no handle_write is in progress
SendsOnlyQueued == outbound_active_ /\ writes = <<>> /\ rpc = "loop"

\* C18: after a write failure followed by a successful (re)connect, a message
\* passed to send is written: when the Connected notification has just fired,
\* the writer is not in a state left by an earlier write error in which later
\* sends are only appended to the queue and no write is issued.
C18_WriterRecoversAfterReconnect ==
    fired = <<SigConnected>> => ~SendsOnlyQueued


\* the reads whose operation is live on the socket (not cancelled)
LiveReads(rs) == {i \in DOMAIN rs : rs[i].ok}

\* the payload reads among the outstanding reads
PayloadReads(rs) == {i \in DOMAIN rs : rs[i].kind = "message"}

\* the message-received events among the notifications of a step
RcvdEvents(events) == {j \in DOMAIN events : events[j][1] = "rcvd"}

\* handle_read_header, respectively handle_read_message, runs without error
HeaderReadOk ==
    \E i \in DOMAIN reads, n \in PayloadSizes, grown \in BOOLEAN :
        HandleReadHeader(i, FALSE, n, grown)

MessageReadOk == \E i \in DOMAIN reads : HandleReadMessage(i, FALSE)

\* C16: the reader cycles AwaitHeader -> AwaitPayload -> Dispatch ->
\* AwaitHeader. At most one read is live at a time; a payload read is issued
\* only by a header read that completed without error, and for exactly that
\* header's payload_size; a payload read that completes without error emits
\* exactly one message-received event, carrying the tags of the header that
\* started it, and re-arms the header read in the same step; no other step
\* emits a message-received event. Frames are therefore delivered in the
\* order of their completion, none lost or duplicated.
C16_ReaderCycle ==
    /\ [](Cardinality(LiveReads(reads)) <= 1)
    /\ [][\A i \in DOMAIN reads, n \in PayloadSizes, grown \in BOOLEAN :
            HandleReadHeader(i, FALSE, n, grown)
                => /\ reads'[Len(reads')] = [kind |-> "message", len |-> n, ok |-> TRUE]
                   /\ RcvdEvents(fired') = {}]_vars
    /\ [][Cardinality(PayloadReads(reads')) > Cardinality(PayloadReads(reads))
            => HeaderReadOk]_vars
    /\ [][\A i \in DOMAIN reads :
            HandleReadMessage(i, FALSE)
                => /\ fired' = <<SigRcvd(reads[i].len)>>
                   /\ reads'[Len(reads')] = StartRecv]_vars
    /\ [][(fired' # fired /\ RcvdEvents(fired') # {}) => MessageReadOk]_vars

\* a frame of 2048 bytes was received into the grown buffer and dispatched,
\* and the next header read is outstanding
C16_Witness ==
    /\ fired = <<SigRcvd(2048)>>
    /\ in_data_size_ = 2048
    /\ connected_
    /\ \E i \in LiveReads(reads) : reads[i].kind = "header"


\* a header read is live on the socket
HeaderReadArmed(rs) == \E i \in LiveReads(rs) : rs[i].kind = "header"

\* C19: a codec failure is per message and does not end the connection. When
\* deserialize fails on a received payload, the client stays Connected and the
\* reader re-arms with a new header read; when serialize fails in send, the
\* outbound queue, outbound_active_ and the outstanding write are unchanged,
\* so that later sends are written as before.
C19_CodecFailureNotFatal ==
    /\ [][DecodeFailure => /\ connected_'
                           /\ HeaderReadArmed(reads')
                           /\ ~crashed']_vars
    /\ [][EncodeFailure => UNCHANGED <<outbound_queue_, outbound_active_,
                                       writes, connected_>>]_vars


\* the destructor has returned
Destroyed == pc[Owner] = "destroyed"

\* C20: teardown terminates. Once the destructor has found a reactor thread to
\* join (running, finished, or spawned and not yet running) and has called
\* disconnect, its stop request and join complete (or the process has ended);
\* when the destructor has returned no reactor thread is live, no handler is
\* in progress, and no step of the client follows.
C20_TeardownTerminates ==
    /\ [](Destroyed => (asio_thread_ = "none" /\ rpc = "loop"))
    /\ [][~Destroyed]_vars
    /\ (pc[Owner] = "dtor_stop") ~> (Destroyed \/ crashed)

\* the client was torn down after its reactor thread had been spawned and had
\* handed an entry to async_write
C20_Witness ==
    /\ Destroyed
    /\ asio_thread_ = "none"
    /\ wire # <<>>
    /\ connectCalls > 0

====
